---- MODULE Spec2Model ----
(***************************************************************************)
(* The autoregressive sequence engine of interactive-spectrogram-          *)
(* inpainting: sequence preparation and de-flattening of                   *)
(* VQNSynthTransformer (transformer.py) and the sampling loop sample_model *)
(* (sample.py).                                                            *)
(*                                                                         *)
(* Tensors are modelled without their batch axis wherever the code treats  *)
(* every batch row alike (prepare_data, to_time_frequency_map, the padder  *)
(* and the write codemap[:, i, j] = sample): a 2-D tensor is a record      *)
(* [dims, at] whose `at` maps 0-based index pairs to elements.  The        *)
(* sampler keeps the batch size of its tensors next to the content of one  *)
(* batch row.                                                              *)
(***************************************************************************)
EXTENDS Integers, Sequences, FiniteSets, TLC

\* ------------------------------------------------------------------ bounds
\* A codemap (and a condition codemap) has at most MaxCells cells.
MaxCells == 6
\* Batch sizes range over 1..MaxBatch.
MaxBatch == 2
\* Size of the vocabulary (n_class of the model): tokens are 0..NumClasses-1.
NumClasses == 2

Tokens == 0 .. (NumClasses - 1)

\* The shapes [frequencies, duration] a codemap can have.
Shapes == {s \in (1..MaxCells) \X (1..MaxCells) : s[1] * s[2] <= MaxCells}

\* ------------------------------------------------------------ tensor algebra
\* A 2-D tensor of shape [n, m] whose element at (a, b) is F(a, b).
Tensor2(n, m, F(_, _)) ==
    [dims |-> <<n, m>>,
     at |-> [p \in (0 .. (n - 1)) \X (0 .. (m - 1)) |-> F(p[1], p[2])]]

\* torch.Tensor.transpose of the two axes of a 2-D tensor.
Transpose(x) ==
    Tensor2(x.dims[2], x.dims[1], LAMBDA a, b : x.at[<<b, a>>])

\* reshape of a 2-D tensor to a sequence (row-major, as torch's contiguous
\* layout): element k (1-based) is the element at (k-1 div m, k-1 mod m).
ReshapeToSequence(x) ==
    [k \in 1 .. (x.dims[1] * x.dims[2]) |->
        x.at[<<(k - 1) \div x.dims[2], (k - 1) % x.dims[2]>>]]

\* reshape of a sequence to a 2-D tensor of shape [n, m] (row-major).
ReshapeToTensor2(seq, n, m) ==
    Tensor2(n, m, LAMBDA a, b : seq[a * m + b + 1])

\* Number of slices torch.Tensor.unfold(dim, size, step) makes of an axis of
\* length len.
UnfoldCount(len, size, step) == ((len - size) \div step) + 1

\* ------------------------------------------------------------------- model
\* The attributes VQNSynthTransformer.__init__ derives from its arguments.
\* Attributes the constructor leaves unset (the target_* of an unconditional
\* model, source_num_* of an absolute one) are 0 here.
NewModel(shape, predict_frequencies_first, use_relative_transformer, conditional_model, condition_shape) ==
    LET source_frequencies ==
            IF conditional_model THEN condition_shape[1] ELSE shape[1]
        source_duration ==
            IF conditional_model THEN condition_shape[2] ELSE shape[2]
        target_frequencies == IF conditional_model THEN shape[1] ELSE 0
        target_duration == IF conditional_model THEN shape[2] ELSE 0
    IN  [shape |-> shape,
         n_class |-> NumClasses,
         conditional_model |-> conditional_model,
         use_relative_transformer |-> use_relative_transformer,
         condition_shape |-> condition_shape,
         predict_frequencies_first |-> predict_frequencies_first,
         predict_low_frequencies_first |-> TRUE,
         source_frequencies |-> source_frequencies,
         source_duration |-> source_duration,
         source_num_channels |->
            IF use_relative_transformer THEN source_frequencies ELSE 0,
         source_num_events |->
            IF use_relative_transformer THEN source_duration ELSE 0,
         source_transformer_sequence_length |->
            source_frequencies * source_duration,
         target_frequencies |-> target_frequencies,
         target_duration |-> target_duration,
         target_transformer_sequence_length |->
            target_frequencies * target_duration,
         output_sizes |->
            IF conditional_model
            THEN <<target_frequencies, target_duration>>
            ELSE <<source_frequencies, source_duration>>]

\* The condition shapes a target shape is an exact multiple of.
DividingShapes(shape) ==
    {c \in Shapes : shape[1] % c[1] = 0 /\ shape[2] % c[2] = 0}

\* The models that can be constructed for a codemap shape: relative
\* positioning needs frequency-first ordering (the constructor raises
\* otherwise); a conditional model has a condition shape.
Models(shape) ==
    {NewModel(shape, pff, rel, FALSE, <<0, 0>>) :
        <<pff, rel>> \in {<<FALSE, FALSE>>, <<TRUE, FALSE>>, <<TRUE, TRUE>>}}
    \cup
    {NewModel(shape, x[1], x[2], TRUE, x[3]) :
        x \in {y \in BOOLEAN \X BOOLEAN \X DividingShapes(shape) :
                  y[2] => y[1]}}

\* ---------------------------------------------------- sequence preparation
\* Mutant of CombinedPositionalEmbeddings: in relative mode each entry of the
\* patch embeddings is repeated in place (one entry for a block of cells)
\* instead of the whole table being tiled.
CombinedPositionalEmbeddingsInterleaved(m, kind) ==
    LET frequencies ==
            IF kind = "source" THEN m.source_frequencies
            ELSE m.target_frequencies
        duration ==
            IF kind = "source" THEN m.source_duration ELSE m.target_duration
        frequency_embedding(f) == <<kind, "frequency", f, 0>>
        time_embedding(t) == <<kind, "time", 0, t>>
        patch_embedding(f, t) ==
            <<kind, "patch",
              f \div m.source_frequencies, t \div m.source_duration>>
    IN  IF ~m.use_relative_transformer
        THEN Tensor2(frequencies, duration,
                LAMBDA f, t : <<frequency_embedding(f), time_embedding(t)>>)
        ELSE IF kind = "target"
        THEN Tensor2(frequencies, duration,
                LAMBDA f, t : <<frequency_embedding(f), patch_embedding(f, t)>>)
        ELSE Tensor2(frequencies, duration,
                LAMBDA f, t : <<frequency_embedding(f), frequency_embedding(f)>>)

\* _get_combined_positional_embeddings: the positional code of every cell,
\* a pair of learned vectors named by the table and the index they come from.
CombinedPositionalEmbeddings(m, kind) ==
    LET frequencies ==
            IF kind = "source" THEN m.source_frequencies
            ELSE m.target_frequencies
        duration ==
            IF kind = "source" THEN m.source_duration ELSE m.target_duration
        frequency_embedding(f) == <<kind, "frequency", f, 0>>
        time_embedding(t) == <<kind, "time", 0, t>>
        patch_embedding(f, t) ==
            <<kind, "patch",
              f % (m.target_frequencies \div m.source_frequencies),
              t % (m.target_duration \div m.source_duration)>>
    IN  IF ~m.use_relative_transformer
        THEN Tensor2(frequencies, duration,
                LAMBDA f, t : <<frequency_embedding(f), time_embedding(t)>>)
        ELSE IF kind = "target"
        THEN Tensor2(frequencies, duration,
                LAMBDA f, t : <<frequency_embedding(f), patch_embedding(f, t)>>)
        ELSE Tensor2(frequencies, duration,
                LAMBDA f, t : <<frequency_embedding(f), frequency_embedding(f)>>)

\* One position of a prepared sequence: the embedding of the token of a cell
\* concatenated with the cell's positional code.  `cell` records which cell
\* [frequency, time] of the input the element was computed from.
Element(kind, cell, token, position) ==
    [start |-> FALSE, kind |-> kind, cell |-> cell, token |-> token,
     position |-> position]

\* The learned start symbol of a level.
StartSymbol(kind) ==
    [start |-> TRUE, kind |-> kind, cell |-> <<-1, -1>>, token |-> -1,
     position |-> <<>>]

\* embed_data and the concatenation of the positional embeddings
\* (input_with_positions), of shape [frequencies, duration].
InputWithPositions(m, input, kind) ==
    LET positional_embeddings == CombinedPositionalEmbeddings(m, kind)
    IN  Tensor2(input.dims[1], input.dims[2],
            LAMBDA f, t : Element(kind, <<f, t>>, input.at[<<f, t>>],
                                  positional_embeddings.at[<<f, t>>]))

\* Mutant of ZigZagIndex: the permutation puts the frequency slices before
\* the time slices.
ZigZagIndexFrequencySlicesFirst(m, x, n) ==
    LET time_slices_size == m.target_duration \div m.source_num_events
        frequency_slices_size ==
            m.target_frequencies \div m.source_num_channels
        time_slices ==
            UnfoldCount(x.dims[1], time_slices_size, time_slices_size)
        d == n % frequency_slices_size
        c == (n \div frequency_slices_size) % time_slices_size
        a == (n \div (frequency_slices_size * time_slices_size))
                % time_slices
        b == n \div (frequency_slices_size * time_slices_size * time_slices)
    IN  <<a * time_slices_size + c, b * frequency_slices_size + d>>

\* zig_zag_reshaping_frequencies_first on a tensor of shape
\* [duration, frequencies]: unfold along time, unfold along frequency,
\* permute to [time slice, frequency slice, time in slice, frequency in
\* slice], reshape to [target_duration, target_frequencies].
ZigZagIndex(m, x, n) ==
    LET time_slices_size == m.target_duration \div m.source_num_events
        frequency_slices_size ==
            m.target_frequencies \div m.source_num_channels
        time_slices ==
            UnfoldCount(x.dims[1], time_slices_size, time_slices_size)
        frequency_slices ==
            UnfoldCount(x.dims[2], frequency_slices_size,
                        frequency_slices_size)
        d == n % frequency_slices_size
        c == (n \div frequency_slices_size) % time_slices_size
        b == (n \div (frequency_slices_size * time_slices_size))
                % frequency_slices
        a == n \div (frequency_slices_size * time_slices_size
                        * frequency_slices)
    IN  <<a * time_slices_size + c, b * frequency_slices_size + d>>

zig_zag_reshaping_frequencies_first(m, x) ==
    Tensor2(m.target_duration, m.target_frequencies,
        LAMBDA t, f : x.at[ZigZagIndex(m, x, t * m.target_frequencies + f)])

\* prepare_data up to the flattening: the unshifted sequence.
FlattenedInputWithPositions(m, input, kind) ==
    LET input_with_positions == InputWithPositions(m, input, kind)
        transposed ==
            IF m.predict_frequencies_first
            THEN Transpose(input_with_positions)
            ELSE input_with_positions
        reordered ==
            IF kind = "target" /\ m.use_relative_transformer
            THEN zig_zag_reshaping_frequencies_first(m, transposed)
            ELSE transposed
    IN  ReshapeToSequence(reordered)

\* Mutant of ShiftedSequence: the last element is not dropped.
ShiftedSequenceKeepingLast(m, flattened, kind) ==
    <<StartSymbol(kind)>> \o flattened

\* The shift of prepare_data: the start symbol, then the first
\* transformer_sequence_length - 1 elements of the flattened sequence.
ShiftedSequence(m, flattened, kind) ==
    LET transformer_sequence_length ==
            IF kind = "source" THEN m.source_transformer_sequence_length
            ELSE m.target_transformer_sequence_length
    IN  <<StartSymbol(kind)>>
            \o SubSeq(flattened, 1, transformer_sequence_length - 1)

\* Mutant of prepare_data: the sequence of every level is shifted.
prepare_data_always_shifted(m, input, kind) ==
    ShiftedSequence(m, FlattenedInputWithPositions(m, input, kind), kind)

\* prepare_data: the sequence handed to the transformer.
prepare_data(m, input, kind) ==
    LET flattened == FlattenedInputWithPositions(m, input, kind)
    IN  IF ~(m.conditional_model /\ kind = "source")
        THEN ShiftedSequence(m, flattened, kind)
        ELSE flattened

\* Mutant of to_time_frequency_map: without patch reordering, the sequence
\* is read as [frequencies, duration] whatever the raster order.
to_time_frequency_map_time_first(m, sequence) ==
    IF m.conditional_model /\ m.use_relative_transformer
    THEN Transpose(zig_zag_reshaping_frequencies_first(m,
            ReshapeToTensor2(sequence, m.output_sizes[2], m.output_sizes[1])))
    ELSE ReshapeToTensor2(sequence, m.output_sizes[1], m.output_sizes[2])

\* to_time_frequency_map: a sequence back to a map of shape
\* [frequencies, duration].
to_time_frequency_map(m, sequence) ==
    LET reshaped ==
            IF m.predict_frequencies_first
            THEN ReshapeToTensor2(sequence, m.output_sizes[2],
                                  m.output_sizes[1])
            ELSE ReshapeToTensor2(sequence, m.output_sizes[1],
                                  m.output_sizes[2])
        zig_zag_map ==
            IF m.conditional_model /\ m.use_relative_transformer
            THEN zig_zag_reshaping_frequencies_first(m, reshaped)
            ELSE reshaped
    IN  IF m.predict_frequencies_first
        THEN Transpose(zig_zag_map)
        ELSE zig_zag_map

\* Mutant of causal_mask: the triangle is not transposed.
causal_mask_untransposed(m) ==
    LET causal_mask_length ==
            IF m.conditional_model
            THEN m.target_transformer_sequence_length
            ELSE m.source_transformer_sequence_length
    IN  Tensor2(causal_mask_length, causal_mask_length,
            LAMBDA a, b : IF b >= a THEN "0.0" ELSE "-inf")

\* Mutant of causal_mask: the mask has the length of the source sequence in
\* every model.
causal_mask_of_source_length(m) ==
    Tensor2(m.source_transformer_sequence_length,
            m.source_transformer_sequence_length,
            LAMBDA a, b : IF b <= a THEN "0.0" ELSE "-inf")

\* causal_mask: triu(ones) == 1, transposed, converted to float, then the
\* two masked_fill.
causal_mask(m) ==
    LET causal_mask_length ==
            IF m.conditional_model
            THEN m.target_transformer_sequence_length
            ELSE m.source_transformer_sequence_length
        triu == Tensor2(causal_mask_length, causal_mask_length,
                        LAMBDA a, b : b >= a)
        mask == Transpose(triu)
        as_float(p) == IF mask.at[p] THEN "1.0" ELSE "0.0"
        filled(p) == IF mask.at[p] = FALSE THEN "-inf" ELSE as_float(p)
    IN  Tensor2(causal_mask_length, causal_mask_length,
            LAMBDA a, b : IF mask.at[<<a, b>>] = TRUE THEN "0.0"
                          ELSE filled(<<a, b>>))

\* ------------------------------------------------------------------- state
VARIABLES
    model,              \* the model (its instantiation attributes)
    kind,               \* prepare_data's `kind` argument
    input,              \* prepare_data's `input` argument, one batch row
    flattened,          \* flattened_input_with_positions of prepare_data
    prepared,           \* the sequence prepare_data returned
    mask,               \* the causal mask the forward pass used
    src_mask,           \* the mask forward gave the transformer for the source
    tgt_mask,           \* the mask forward gave the transformer for the target
    time_frequency_map, \* what to_time_frequency_map returned
    phase,              \* how far one forward pass has come
    batch_size,         \* sample_model's batch_size argument
    condition,          \* sample_model's condition argument (or None)
    constraint,         \* sample_model's constraint argument (or None)
    codemap,            \* sample_model's local codemap
    constraint_height,  \* sample_model's local constraint_height
    constraint_width,   \* sample_model's local constraint_width
    i,                  \* inner loop variable: frequency row
    j,                  \* outer loop variable: time column
    pc,                 \* where sample_model stands
    raised,             \* the exception sample_model raised, if any
    returned,           \* the codemap sample_model returned, if any
    forward_calls,      \* number of calls of the model so far
    visited,            \* the positions sampled so far, in order
    read,               \* the cells whose tokens reached the logits last read
    parameters,         \* the arguments of a call of the constructor
    init_pc,            \* where the constructor stands
    init_raised,        \* the exception the constructor raised, if any
    components,         \* the parameters and layers the constructor has built
    class_conditioning_start_positions_per_modality, \* as the constructor set it
    start_symbol,       \* prepare_data's local start_symbol, one batch row
    written,            \* per modality inserted so far, the indexes written
    insert_raised,      \* the exception the insertion raised, if any
    sequence_mask,      \* a SequenceMask object (its attributes)
    mask_batch_size,    \* sample_mask's batch_size argument
    num_masked_tokens,  \* sample_mask's local num_masked_tokens
    mask_indexes_batched, \* per batch row, the indexes multinomial drew
    mask_sequence,      \* sample_mask's local mask_sequence (flat)
    returned_mask,      \* the mask sample_mask returned, a row per batch row
    mask_pc,            \* where sample_mask stands
    mask_raised,        \* the exception sample_mask raised, if any
    mask_call,          \* the method called: sample_mask or apply_mask
    mask_input,         \* apply_mask's input, a row per batch row
    masking_probability, \* sample_mask's local masking_probability
    masked_output,      \* what apply_mask returned
    \* the storing and reloading of a model's instantiation parameters
    arguments,          \* the keyword arguments of the first constructor call
    instantiation_parameters, \* _instantiation_parameters of the first model
    parameters_json,    \* the JSON file store_instantiation_parameters wrote
    reinstantiated_parameters, \* _instantiation_parameters of the reloaded model
    store_pc,           \* where the storing and reloading stands
    store_raised        \* the exception a constructor call raised, if any

seq_vars == <<kind, input, flattened, prepared, mask, src_mask, tgt_mask, time_frequency_map, phase>>

sample_vars == <<batch_size, condition, constraint, codemap, constraint_height, constraint_width, i, j, pc, raised, returned, forward_calls, visited, read>>

construct_vars == <<parameters, init_pc, init_raised, components, class_conditioning_start_positions_per_modality, start_symbol, written, insert_raised>>

masking_vars == <<sequence_mask, mask_batch_size, num_masked_tokens, mask_indexes_batched, mask_sequence, returned_mask, mask_pc, mask_raised, mask_call, mask_input, masking_probability, masked_output>>

store_vars == <<arguments, instantiation_parameters, parameters_json, reinstantiated_parameters, store_pc, store_raised>>

vars == <<model, seq_vars, sample_vars, construct_vars, masking_vars, store_vars>>

\* A tensor that has not been computed (or an argument that is None).
NoTensor == [dims |-> <<0, 0>>, at |-> <<>>]

\* The codemaps of a shape.
Codemaps(shape) ==
    {[dims |-> shape, at |-> a] :
        a \in [(0 .. (shape[1] - 1)) \X (0 .. (shape[2] - 1)) -> Tokens]}

\* The level whose sequence the transformer predicts, and whose output
\* to_time_frequency_map de-flattens.
OutputKind(m) == IF m.conditional_model THEN "target" ELSE "source"

\* The shape prepare_data expects for a level.
KindShape(m, k) ==
    IF k = "source" THEN <<m.source_frequencies, m.source_duration>>
    ELSE <<m.target_frequencies, m.target_duration>>

\* A batched tensor: the batch size and the content of one batch row.
Batched(batch, x) == [batch |-> batch, dims |-> x.dims, at |-> x.at]

\* One batch row of a batched tensor.
Row(x) == [dims |-> x.dims, at |-> x.at]

\* An argument that is None, a local that is not bound yet.
None == Batched(0, NoTensor)

\* forward's call of the transformer: a conditional model masks the target
\* sequence only (src_mask=None), an unconditional one its only sequence.
forward_masks(m) ==
    IF m.conditional_model
    THEN [src_mask |-> NoTensor, tgt_mask |-> causal_mask(m)]
    ELSE [src_mask |-> causal_mask(m), tgt_mask |-> NoTensor]

\* No model (the constructor has not returned one).
NoModel == [constructed |-> FALSE]

\* No constructor is running.
ConstructIdle ==
    /\ parameters = <<>>
    /\ init_pc = "idle"
    /\ init_raised = "none"
    /\ components = {}
    /\ class_conditioning_start_positions_per_modality = <<>>
    /\ start_symbol = <<>>
    /\ written = <<>>
    /\ insert_raised = "none"

\* No mask is being sampled.
MaskingIdle ==
    /\ sequence_mask = <<>>
    /\ mask_batch_size = 0
    /\ num_masked_tokens = -1
    /\ mask_indexes_batched = <<>>
    /\ mask_sequence = <<>>
    /\ returned_mask = <<>>
    /\ mask_pc = "idle"
    /\ mask_raised = "none"
    /\ mask_call = "none"
    /\ mask_input = <<>>
    /\ masking_probability = <<>>
    /\ masked_output = <<>>

\* No model is being stored or reloaded.
StoreIdle ==
    /\ arguments = <<>>
    /\ instantiation_parameters = <<>>
    /\ parameters_json = <<>>
    /\ reinstantiated_parameters = <<>>
    /\ store_pc = "idle"
    /\ store_raised = "none"

\* sample_model is not running.
SampleIdle ==
    /\ batch_size = 0
    /\ condition = None
    /\ constraint = None
    /\ codemap = None
    /\ constraint_height = -1
    /\ constraint_width = -1
    /\ i = 0
    /\ j = 0
    /\ pc = "idle"
    /\ raised = "none"
    /\ returned = None
    /\ forward_calls = 0
    /\ visited = <<>>
    /\ read = {}

\* No sequence is being prepared.
SeqIdle ==
    /\ kind = "source"
    /\ input = NoTensor
    /\ flattened = <<>>
    /\ prepared = <<>>
    /\ mask = NoTensor
    /\ src_mask = NoTensor
    /\ tgt_mask = NoTensor
    /\ time_frequency_map = NoTensor
    /\ phase = "idle"

\* --------------------------------------------- one pass over the sequences
\* A constructed model and the codemap of one of its levels.
SeqInit ==
    /\ model \in UNION {Models(shape) : shape \in Shapes}
    /\ kind \in (IF model.conditional_model THEN {"source", "target"}
                 ELSE {"source"})
    /\ input \in Codemaps(KindShape(model, kind))
    /\ flattened = <<>>
    /\ prepared = <<>>
    /\ mask = NoTensor
    /\ src_mask = NoTensor
    /\ tgt_mask = NoTensor
    /\ time_frequency_map = NoTensor
    /\ phase = "input"
    /\ SampleIdle
    /\ ConstructIdle
    /\ MaskingIdle
    /\ StoreIdle

\* prepare_data(input, kind).
PrepareData ==
    /\ phase = "input"
    /\ flattened' = FlattenedInputWithPositions(model, input, kind)
    /\ prepared' = prepare_data(model, input, kind)
    /\ phase' = "prepared"
    /\ UNCHANGED <<model, kind, input, mask, src_mask, tgt_mask, time_frequency_map, sample_vars, construct_vars, masking_vars, store_vars>>

\* forward: the causal_mask property is read for the transformer call, which
\* gets its masks.
CausalMask ==
    /\ phase = "prepared"
    /\ kind = OutputKind(model)
    /\ mask' = causal_mask(model)
    /\ src_mask' = forward_masks(model).src_mask
    /\ tgt_mask' = forward_masks(model).tgt_mask
    /\ phase' = "masked"
    /\ UNCHANGED <<model, kind, input, flattened, prepared, time_frequency_map, sample_vars, construct_vars, masking_vars, store_vars>>

\* to_time_frequency_map on a sequence aligned with the unshifted one (as
\* the transformer's output is).
ToTimeFrequencyMap ==
    /\ phase = "masked"
    /\ time_frequency_map' = to_time_frequency_map(model, flattened)
    /\ phase' = "mapped"
    /\ UNCHANGED <<model, kind, input, flattened, prepared, mask, src_mask, tgt_mask, sample_vars, construct_vars, masking_vars, store_vars>>

SeqNext == PrepareData \/ CausalMask \/ ToTimeFrequencyMap

SeqSpec == SeqInit /\ [][SeqNext]_vars

\* ------------------------------------------------------------ sample_model
\* Python's list comparison a > b: lexicographic, a proper prefix being the
\* smaller list.
RECURSIVE ListGreater(_, _)
ListGreater(a, b) ==
    IF a = <<>> THEN FALSE
    ELSE IF b = <<>> THEN TRUE
    ELSE IF Head(a) # Head(b) THEN Head(a) > Head(b)
    ELSE ListGreater(Tail(a), Tail(b))

\* The size check of the constraint: list(constraint.shape) > codemap_size.
ConstraintTooLarge(shape, codemap_size) == ListGreater(shape, codemap_size)

\* torch.nn.ConstantPad2d((left, right, top, bottom), value) on the last two
\* axes; a negative padding crops.
ConstantPad2d(x, left, right, top, bottom, value) ==
    Tensor2(x.dims[1] + top + bottom, x.dims[2] + left + right,
        LAMBDA a, b :
            IF /\ a - top \in 0 .. (x.dims[1] - 1)
               /\ b - left \in 0 .. (x.dims[2] - 1)
            THEN x.at[<<a - top, b - left>>]
            ELSE value)

\* Mutant of Zeros: the codemap is filled with the number of classes.
ZerosOutsideVocabulary(shape) == Tensor2(shape[1], shape[2], LAMBDA a, b : NumClasses)

\* torch.zeros(*shape).
Zeros(shape) == Tensor2(shape[1], shape[2], LAMBDA a, b : 0)

\* Mutant of StartColumn: the first row is one above the constraint's last.
StartColumnAboveConstraint(col, height, width) ==
    IF col > width THEN 0 ELSE height - 1

\* The first row the inner loop visits in column col.
StartColumn(col, height, width) == IF col > width THEN 0 ELSE height + 1

\* The cells whose tokens the output at each position of the prepared
\* sequence is computed from: the transformer attends from position k to
\* the positions the causal mask holds 0.0 for.
AttendedCells(m, sequence) ==
    LET attention_mask == causal_mask(m)
    IN  [k \in 1 .. Len(sequence) |->
            {sequence[p].cell :
                p \in {q \in 1 .. Len(sequence) :
                          /\ attention_mask.at[<<k - 1, q - 1>>] = "0.0"
                          /\ ~sequence[q].start}}]

\* The forward pass of the model on a codemap, as far as data flow goes: for
\* every cell of the logits map, the codemap cells whose tokens it depends
\* on.
ForwardDependencies(m, input_codemap) ==
    to_time_frequency_map(m,
        AttendedCells(m, prepare_data(m, input_codemap, OutputKind(m))))

\* The codemap a pattern number stands for.
PatternCodemap(shape, pattern) ==
    Tensor2(shape[1], shape[2],
        LAMBDA a, b : (pattern + a + 2 * b) % NumClasses)

\* The constraints a call may be given for a codemap size: None, or a
\* tensor of up to one row and one column more than the codemap.
Constraints(codemap_size) ==
    {None} \cup
    {Batched(b, PatternCodemap(<<h, w>>, p)) :
        b \in 1 .. MaxBatch,
        h \in 1 .. (codemap_size[1] + 1),
        w \in 1 .. (codemap_size[2] + 1),
        p \in Tokens}

\* A call sample_model(model, device, batch_size, model.shape, temperature,
\* condition, constraint) that has not run yet.  A conditional model is
\* given a condition of the batch size of the codemap.
Init ==
    /\ model \in UNION {Models(shape) : shape \in Shapes}
    /\ batch_size \in 1 .. MaxBatch
    /\ constraint \in Constraints(model.shape)
    /\ condition \in
        IF model.conditional_model
        THEN {Batched(IF constraint = None THEN batch_size
                      ELSE constraint.batch,
                      PatternCodemap(model.condition_shape, 0))}
        ELSE {None}
    /\ codemap = None
    /\ constraint_height = -1
    /\ constraint_width = -1
    /\ i = 0
    /\ j = 0
    /\ pc = "call"
    /\ raised = "none"
    /\ returned = None
    /\ forward_calls = 0
    /\ visited = <<>>
    /\ read = {}
    /\ SeqIdle
    /\ ConstructIdle
    /\ MaskingIdle
    /\ StoreIdle

\* Lines 50-74: the zero codemap, the size check of the constraint and the
\* padding of the constraint to the codemap.
CreateCodemap ==
    /\ pc = "call"
    /\ IF constraint = None
       THEN /\ codemap' = Batched(batch_size, Zeros(model.shape))
            /\ pc' = "created"
            /\ UNCHANGED <<constraint_height, constraint_width, raised>>
       ELSE IF ConstraintTooLarge(<<constraint.batch>> \o constraint.dims, model.shape)
       THEN /\ codemap' = Batched(batch_size, Zeros(model.shape))
            /\ pc' = "raised"
            /\ raised' = "ValueError"
            /\ UNCHANGED <<constraint_height, constraint_width>>
       ELSE /\ constraint_height' = constraint.dims[1]
            /\ constraint_width' = constraint.dims[2]
            /\ codemap' =
                Batched(constraint.batch,
                    ConstantPad2d(Row(constraint), 0,
                        model.shape[2] - constraint.dims[2], 0,
                        model.shape[1] - constraint.dims[1], 0))
            /\ pc' = "created"
            /\ UNCHANGED raised
    /\ UNCHANGED <<model, seq_vars, construct_vars, masking_vars, store_vars, batch_size, condition, constraint, i, j, returned, forward_calls, visited, read>>

\* Mutant of Dispatch: the unsupported order is passed over in silence and
\* the untouched codemap goes on to be returned.
DispatchSilently ==
    /\ pc = "created"
    /\ pc' = "outer"
    /\ j' = IF model.predict_frequencies_first THEN 0 ELSE model.shape[2]
    /\ UNCHANGED <<model, seq_vars, construct_vars, masking_vars, store_vars, batch_size, condition, constraint, codemap, constraint_height, constraint_width, i, raised, returned, forward_calls, visited, read>>

\* Lines 76-79 and 88-89: the sampling order the model is configured for.
Dispatch ==
    /\ pc = "created"
    /\ IF model.predict_frequencies_first
       THEN /\ pc' = "outer"
            /\ j' = 0
            /\ UNCHANGED raised
       ELSE /\ pc' = "raised"
            /\ raised' = "NotImplementedError"
            /\ UNCHANGED j
    /\ UNCHANGED <<model, seq_vars, construct_vars, masking_vars, store_vars, batch_size, condition, constraint, codemap, constraint_height, constraint_width, i, returned, forward_calls, visited, read>>

\* Lines 79-82: the outer loop enters column j.
BeginColumn ==
    /\ pc = "outer"
    /\ j < model.shape[2]
    /\ i' = StartColumn(j, constraint_height, constraint_width)
    /\ pc' = "inner"
    /\ UNCHANGED <<model, seq_vars, construct_vars, masking_vars, store_vars, batch_size, condition, constraint, codemap, constraint_height, constraint_width, j, raised, returned, forward_calls, visited, read>>

\* Mutant of SampleStep: the inner loop runs through the rows of a column
\* from the last one to the first.
SampleStepUpwards ==
    /\ pc = "inner"
    /\ i < model.shape[1]
    /\ forward_calls' = forward_calls + 1
    /\ read' = ForwardDependencies(model, Row(codemap)).at[<<i, j>>]
    /\ \E sample \in Tokens :
        codemap' = [codemap EXCEPT !.at[<<model.shape[1] - 1 - i, j>>] = sample]
    /\ visited' = Append(visited, <<model.shape[1] - 1 - i, j>>)
    /\ i' = i + 1
    /\ UNCHANGED <<model, seq_vars, construct_vars, masking_vars, store_vars, batch_size, condition, constraint, constraint_height, constraint_width, j, pc, raised, returned>>

\* Mutant of SampleStep: the sample is written to the whole column j.
SampleStepOfWholeColumn ==
    /\ pc = "inner"
    /\ i < model.shape[1]
    /\ forward_calls' = forward_calls + 1
    /\ read' = ForwardDependencies(model, Row(codemap)).at[<<i, j>>]
    /\ \E sample \in Tokens :
        codemap' = [codemap EXCEPT !.at = [cell \in DOMAIN codemap.at |-> IF cell[2] = j THEN sample ELSE codemap.at[cell]]]
    /\ visited' = Append(visited, <<i, j>>)
    /\ i' = i + 1
    /\ UNCHANGED <<model, seq_vars, construct_vars, masking_vars, store_vars, batch_size, condition, constraint, constraint_height, constraint_width, j, pc, raised, returned>>

\* Lines 83-87: one sampling step, for position (i, j).
SampleStep ==
    /\ pc = "inner"
    /\ i < model.shape[1]
    /\ forward_calls' = forward_calls + 1
    /\ read' = ForwardDependencies(model, Row(codemap)).at[<<i, j>>]
    /\ \E sample \in Tokens :
        codemap' = [codemap EXCEPT !.at[<<i, j>>] = sample]
    /\ visited' = Append(visited, <<i, j>>)
    /\ i' = i + 1
    /\ UNCHANGED <<model, seq_vars, construct_vars, masking_vars, store_vars, batch_size, condition, constraint, constraint_height, constraint_width, j, pc, raised, returned>>

\* Mutant of EndColumn: the outer loop moves on by two columns.
EndColumnSkippingOne ==
    /\ pc = "inner"
    /\ i >= model.shape[1]
    /\ j' = j + 2
    /\ pc' = "outer"
    /\ UNCHANGED <<model, seq_vars, construct_vars, masking_vars, store_vars, batch_size, condition, constraint, codemap, constraint_height, constraint_width, i, raised, returned, forward_calls, visited, read>>

\* Line 82: the inner loop is exhausted, the outer loop moves on.
EndColumn ==
    /\ pc = "inner"
    /\ i >= model.shape[1]
    /\ j' = j + 1
    /\ pc' = "outer"
    /\ UNCHANGED <<model, seq_vars, construct_vars, masking_vars, store_vars, batch_size, condition, constraint, codemap, constraint_height, constraint_width, i, raised, returned, forward_calls, visited, read>>

\* Lines 79 and 91: the outer loop is exhausted, the codemap is returned.
Return ==
    /\ pc = "outer"
    /\ j >= model.shape[2]
    /\ returned' = codemap
    /\ pc' = "returned"
    /\ UNCHANGED <<model, seq_vars, construct_vars, masking_vars, store_vars, batch_size, condition, constraint, codemap, constraint_height, constraint_width, i, j, raised, forward_calls, visited, read>>

Next ==
    \/ CreateCodemap
    \/ Dispatch
    \/ BeginColumn
    \/ SampleStep
    \/ EndColumn
    \/ Return

Spec == Init /\ [][Next]_vars

\* ------------------------------------------------------------ constructor
\* Largest embedding width of a class-conditioning modality.
MaxEmbeddingDim == 2

\* The modalities a model can be conditioned on, in configuration order.
Modalities == <<"pitch", "instrument_family_str">>

\* A condition_shape that is None.
NoShape == <<>>

\* class_conditioning_embedding_dim_per_modality: the embedding widths of the
\* first modalities, in configuration order (none: no class conditioning).
EmbeddingDimsPerModality ==
    UNION {[1 .. n -> 1 .. MaxEmbeddingDim] : n \in 0 .. Len(Modalities)}

\* The arguments of the constructor the model looks at.  The other widths
\* (embeddings_dim, positional_embeddings_dim, the numbers of heads) are
\* taken to fit d_model.
ConstructorParameters ==
    {[shape |-> shape,
      conditional_model |-> c[1],
      condition_shape |-> c[2],
      predict_frequencies_first |-> pff,
      use_relative_transformer |-> rel,
      d_model |-> d_model,
      class_conditioning_embedding_dim_per_modality |-> dims,
      class_conditioning_prepend_to_dummy_input |-> prepend] :
        shape \in Shapes,
        c \in {<<FALSE, NoShape>>} \cup ({TRUE} \X (Shapes \cup {NoShape})),
        pff \in BOOLEAN, rel \in BOOLEAN,
        d_model \in MaxEmbeddingDim .. (2 * MaxEmbeddingDim),
        dims \in EmbeddingDimsPerModality,
        prepend \in BOOLEAN}

\* target_events_per_source_patch, with the constructor's floor divisions.
TargetEventsPerSourcePatch(par) ==
    (par.shape[2] \div par.condition_shape[2])
        * (par.shape[1] \div par.condition_shape[1])

\* current_position after the first k rounds of the loop that sets the start
\* positions: the position is moved by the modality's width, then stored.
RECURSIVE CurrentPosition(_, _)
CurrentPosition(par, k) ==
    LET direction ==
            IF par.class_conditioning_prepend_to_dummy_input THEN 1 ELSE -1
    IN  IF k = 0
        THEN IF par.class_conditioning_prepend_to_dummy_input THEN 0
             ELSE par.d_model
        ELSE CurrentPosition(par, k - 1)
                + direction * par.class_conditioning_embedding_dim_per_modality[k]

\* class_conditioning_start_positions_per_modality as the constructor
\* leaves it.
StartPositions(par) ==
    [k \in 1 .. Len(par.class_conditioning_embedding_dim_per_modality) |->
        CurrentPosition(par, k)]

\* The parameters and layers of a constructed model.
Components(par) ==
    {"source_positional_embeddings_frequency",
     "source_positional_embeddings_time", "source_embeddings_linear",
     "source_embed", "project_transformer_outputs_to_logits",
     "source_start_symbol", "transformer"}
    \cup (IF par.conditional_model
          THEN {"target_positional_embeddings_frequency",
                "target_embeddings_linear", "target_embed",
                "target_start_symbol"}
               \cup (IF par.use_relative_transformer
                     THEN {"target_positional_embeddings_patch"}
                     ELSE {"target_positional_embeddings_time"})
          ELSE {})
    \cup {Modalities[k] :    \* class_conditioning_embedding_layers[name]
            k \in 1 .. Len(par.class_conditioning_embedding_dim_per_modality)}

\* Python's normalisation of a slice bound for a dimension of n entries.
SliceBound(x, n) ==
    IF x < 0 THEN (IF x + n < 0 THEN 0 ELSE x + n)
    ELSE IF x > n THEN n ELSE x

\* The indexes start:stop selects in a dimension of n entries.
SliceIndices(start, stop, n) ==
    {p \in 0 .. (n - 1) : SliceBound(start, n) <= p /\ p < SliceBound(stop, n)}

\* A call of the constructor.
ConstructInit ==
    /\ parameters \in ConstructorParameters
    /\ init_pc = "call"
    /\ init_raised = "none"
    /\ components = {}
    /\ class_conditioning_start_positions_per_modality = <<>>
    /\ start_symbol = <<>>
    /\ written = <<>>
    /\ insert_raised = "none"
    /\ model = NoModel
    /\ SeqIdle
    /\ SampleIdle
    /\ MaskingIdle
    /\ StoreIdle

\* Mutant of CheckArguments: relative positioning is accepted in either
\* order.
CheckArgumentsInEitherOrder ==
    /\ init_pc = "call"
    /\ IF parameters.conditional_model /\ parameters.condition_shape = NoShape
       THEN /\ init_pc' = "raised"
            /\ init_raised' = "AssertionError"
       ELSE /\ init_pc' = "checked"
            /\ UNCHANGED init_raised
    /\ UNCHANGED <<model, seq_vars, sample_vars, masking_vars, store_vars, parameters, components, class_conditioning_start_positions_per_modality, start_symbol, written, insert_raised>>

\* The checks at the head of the constructor, before super().__init__():
\* a conditional model has a condition shape; relative positioning needs
\* frequency-first ordering.  The second raise statement raises a tuple
\* (NotImplementedError, message), which Python rejects with TypeError.
CheckArguments ==
    /\ init_pc = "call"
    /\ IF parameters.conditional_model /\ parameters.condition_shape = NoShape
       THEN /\ init_pc' = "raised"
            /\ init_raised' = "AssertionError"
       ELSE IF /\ parameters.use_relative_transformer
               /\ ~parameters.predict_frequencies_first
       THEN /\ init_pc' = "raised"
            /\ init_raised' = "TypeError"
       ELSE /\ init_pc' = "checked"
            /\ UNCHANGED init_raised
    /\ UNCHANGED <<model, seq_vars, sample_vars, masking_vars, store_vars, parameters, components, class_conditioning_start_positions_per_modality, start_symbol, written, insert_raised>>

\* The sizes of the two levels.  A conditional relative model divides the
\* target sequence length by target_events_per_source_patch, the product of
\* two floor divisions.
ComputeSizes ==
    /\ init_pc = "checked"
    /\ IF /\ parameters.conditional_model
          /\ parameters.use_relative_transformer
          /\ TargetEventsPerSourcePatch(parameters) = 0
       THEN /\ init_pc' = "raised"
            /\ init_raised' = "ZeroDivisionError"
       ELSE /\ init_pc' = "sized"
            /\ UNCHANGED init_raised
    /\ UNCHANGED <<model, seq_vars, sample_vars, masking_vars, store_vars, parameters, components, class_conditioning_start_positions_per_modality, start_symbol, written, insert_raised>>

\* The rest of the constructor: the embeddings, the class-conditioning
\* layers and start positions, the start symbols, the transformer.
BuildComponents ==
    /\ init_pc = "sized"
    /\ components' = Components(parameters)
    /\ class_conditioning_start_positions_per_modality'
            = StartPositions(parameters)
    /\ start_symbol' = [p \in 0 .. (parameters.d_model - 1) |-> <<0, p>>]
    /\ model' = NewModel(parameters.shape,
                         parameters.predict_frequencies_first,
                         parameters.use_relative_transformer,
                         parameters.conditional_model,
                         IF parameters.conditional_model
                         THEN parameters.condition_shape ELSE <<0, 0>>)
    /\ init_pc' = "constructed"
    /\ UNCHANGED <<seq_vars, sample_vars, masking_vars, store_vars, parameters, init_raised, written, insert_raised>>

\* One round of prepare_data's loop over class_conditioning, given all the
\* modalities of the model in configuration order: the embedding of the
\* modality is assigned to the slice of the start symbol that begins at the
\* modality's start position.  The assignment needs the slice to be as wide
\* as the embedding, or the embedding to have width 1 (it is broadcast).
InsertClassConditioning ==
    /\ init_pc = "constructed"
    /\ insert_raised = "none"
    /\ Len(written) < Len(parameters.class_conditioning_embedding_dim_per_modality)
    /\ LET k == Len(written) + 1
           width == parameters.class_conditioning_embedding_dim_per_modality[k]
           start_position ==
               class_conditioning_start_positions_per_modality[k]
           indexes == SliceIndices(start_position, start_position + width,
                                   parameters.d_model)
           first == SliceBound(start_position, parameters.d_model)
       IN  IF Cardinality(indexes) = width \/ width = 1
           THEN /\ start_symbol' =
                    [p \in 0 .. (parameters.d_model - 1) |->
                        IF p \in indexes THEN <<k, p - first>>
                        ELSE start_symbol[p]]
                /\ written' = Append(written, indexes)
                /\ UNCHANGED insert_raised
           ELSE /\ insert_raised' = "RuntimeError"
                /\ UNCHANGED <<start_symbol, written>>
    /\ UNCHANGED <<model, seq_vars, sample_vars, masking_vars, store_vars, parameters, init_pc, init_raised, components, class_conditioning_start_positions_per_modality>>

ConstructNext ==
    \/ CheckArguments
    \/ ComputeSizes
    \/ BuildComponents
    \/ InsertClassConditioning

ConstructSpec == ConstructInit /\ [][ConstructNext]_vars

\* ---------------------------------------------------------- sequence masks
\* Longest sequence a mask is sampled for.
MaxDuration == 3

\* The values of min_masking_ratio, as fractions <<numerator, denominator>>.
MaskingRatios == {<<0, 1>>, <<1, 3>>, <<1, 2>>, <<1, 1>>}

\* math.ceil(sequence_duration * min_masking_ratio).
CeilOfProduct(sequence_duration, ratio) ==
    (sequence_duration * ratio[1] + ratio[2] - 1) \div ratio[2]

\* UniformMaskedAmountSequenceMask(min_masking_ratio, sequence_duration).
UniformMaskedAmountSequenceMask(min_masking_ratio, sequence_duration, mask_token_index) ==
    [class |-> "UniformMaskedAmountSequenceMask",
     sequence_duration |-> sequence_duration,
     mask_token_index |-> mask_token_index,
     min_masking_ratio |-> min_masking_ratio,
     min_masked_amount |-> CeilOfProduct(sequence_duration, min_masking_ratio)]

\* The results torch.multinomial can give for one row of equal weights over
\* n categories and num_samples draws without replacement (the order of the
\* draws is left out: index_fill_ does not depend on it).
Multinomial(n, num_samples) ==
    {drawn \in SUBSET (0 .. (n - 1)) : Cardinality(drawn) = num_samples}

\* The values of mask_token_index: a token of the vocabulary, or the first
\* index past it.
MaskTokenIndexes == {0, NumClasses}

\* Probabilities, as fractions <<numerator, denominator>>.
Probabilities == {<<0, 1>>, <<1, 2>>, <<1, 1>>}

\* p < q for two fractions.
Less(p, q) == p[1] * q[2] < q[1] * p[2]

\* SequenceMask(sequence_duration, mask_token_index), the base class.
SequenceMask(sequence_duration, mask_token_index) ==
    [class |-> "SequenceMask",
     sequence_duration |-> sequence_duration,
     mask_token_index |-> mask_token_index]

\* BernoulliSequenceMask(probability, sequence_duration, mask_token_index).
BernoulliSequenceMask(probability, sequence_duration, mask_token_index) ==
    [class |-> "BernoulliSequenceMask",
     sequence_duration |-> sequence_duration,
     mask_token_index |-> mask_token_index,
     probability |-> probability]

\* UniformProbabilityBernoulliSequenceMask(low, high, sequence_duration,
\* mask_token_index), for 0 <= low < high <= 1 (asserted).
UniformProbabilityBernoulliSequenceMask(low, high, sequence_duration, mask_token_index) ==
    [class |-> "UniformProbabilityBernoulliSequenceMask",
     sequence_duration |-> sequence_duration,
     mask_token_index |-> mask_token_index,
     low |-> low,
     high |-> high]

\* ContiguousZonesSequenceMask(sequence_duration, mask_token_index).
ContiguousZonesSequenceMask(sequence_duration, mask_token_index) ==
    [class |-> "ContiguousZonesSequenceMask",
     sequence_duration |-> sequence_duration,
     mask_token_index |-> mask_token_index]

\* The mask objects of the four variants and of the base class.
SequenceMasks ==
    UNION {
        {SequenceMask(duration, index),
         ContiguousZonesSequenceMask(duration, index)}
        \cup {BernoulliSequenceMask(p, duration, index) : p \in Probabilities}
        \cup {UniformProbabilityBernoulliSequenceMask(x[1], x[2], duration, index) :
                x \in {y \in Probabilities \X Probabilities : Less(y[1], y[2])}}
        \cup {UniformMaskedAmountSequenceMask(ratio, duration, index) :
                ratio \in MaskingRatios} :
        <<duration, index>> \in (1 .. MaxDuration) \X MaskTokenIndexes}

\* Mutant of Bernoulli: a draw can give either value whatever the
\* probability.
BernoulliOfAnyOutcome(p) == BOOLEAN

\* The values a Bernoulli draw of probability p can give.
Bernoulli(p) ==
    IF p[1] = 0 THEN {FALSE}
    ELSE IF p[1] = p[2] THEN {TRUE}
    ELSE BOOLEAN

\* The values random.uniform(low, high) can give: low, a value between the
\* two, high (reached or not, depending on the rounding).
Uniform(low, high) ==
    {low, <<low[1] * high[2] + high[1] * low[2], 2 * low[2] * high[2]>>, high}

\* (ones(batch_size, sequence_duration) * p).bernoulli().bool().
BernoulliMasks(batch, duration, p) ==
    [0 .. (batch - 1) -> [0 .. (duration - 1) -> Bernoulli(p)]]

\* The inputs of apply_mask: token sequences of shape [batch,
\* sequence_duration].
MaskInputs(batch, duration) ==
    {[row \in 0 .. (batch - 1) |->
        [col \in 0 .. (duration - 1) |->
            (pattern + row + 2 * col) % NumClasses]] : pattern \in Tokens}

\* input.masked_fill(mask, value): a new tensor.
masked_fill(x, fill_mask, value) ==
    [row \in DOMAIN x |->
        [col \in DOMAIN x[row] |->
            IF fill_mask[row][col] THEN value ELSE x[row][col]]]

\* A call of sample_mask(batch_size), or of apply_mask(input), on a mask
\* object.
MaskInit ==
    /\ sequence_mask \in SequenceMasks
    /\ mask_call \in {"sample_mask", "apply_mask"}
    /\ mask_batch_size \in 1 .. MaxBatch
    /\ mask_input \in
        (IF mask_call = "apply_mask"
         THEN MaskInputs(mask_batch_size, sequence_mask.sequence_duration)
         ELSE {<<>>})
    /\ masking_probability = <<>>
    /\ masked_output = <<>>
    /\ num_masked_tokens = -1
    /\ mask_indexes_batched = <<>>
    /\ mask_sequence = <<>>
    /\ returned_mask = <<>>
    /\ mask_pc = "call"
    /\ mask_raised = "none"
    /\ model = NoModel
    /\ SeqIdle
    /\ SampleIdle
    /\ ConstructIdle
    /\ StoreIdle

\* torch.randint(min_masked_amount, sequence_duration + 1, (1,)).item().
SampleAmount ==
    /\ mask_pc = "call"
    /\ sequence_mask.class = "UniformMaskedAmountSequenceMask"
    /\ num_masked_tokens' \in
        sequence_mask.min_masked_amount .. sequence_mask.sequence_duration
    /\ mask_pc' = "amount"
    /\ UNCHANGED <<model, seq_vars, sample_vars, construct_vars, store_vars, sequence_mask, mask_batch_size, mask_indexes_batched, mask_sequence, returned_mask, mask_raised, mask_call, mask_input, masking_probability, masked_output>>

\* torch.multinomial(ones, num_masked_tokens, replacement=False), which
\* refuses to draw no sample (RuntimeError: cannot sample n_sample <= 0
\* samples).
SampleIndexes ==
    /\ mask_pc = "amount"
    /\ IF num_masked_tokens <= 0
       THEN /\ mask_raised' = "RuntimeError"
            /\ mask_pc' = "raised"
            /\ UNCHANGED mask_indexes_batched
       ELSE /\ mask_indexes_batched' \in
                [0 .. (mask_batch_size - 1) ->
                    Multinomial(sequence_mask.sequence_duration,
                                num_masked_tokens)]
            /\ mask_pc' = "indexes"
            /\ UNCHANGED mask_raised
    /\ UNCHANGED <<model, seq_vars, sample_vars, construct_vars, store_vars, sequence_mask, mask_batch_size, num_masked_tokens, mask_sequence, returned_mask, mask_call, mask_input, masking_probability, masked_output>>

\* The mask: a flat sequence of False, filled with True at the drawn indexes
\* moved by row * sequence_duration, reshaped to [batch_size,
\* sequence_duration].
FillMask ==
    /\ mask_pc = "indexes"
    /\ LET num_tokens_total ==
               mask_batch_size * sequence_mask.sequence_duration
           mask_indexes_flattened ==
               {index + row * sequence_mask.sequence_duration :
                    <<row, index>> \in
                        {x \in (0 .. (mask_batch_size - 1))
                                \X (0 .. (sequence_mask.sequence_duration - 1)) :
                            x[2] \in mask_indexes_batched[x[1]]}}
           filled ==
               [n \in 0 .. (num_tokens_total - 1) |->
                    n \in mask_indexes_flattened]
       IN  /\ mask_sequence' = filled
           /\ returned_mask' =
                [row \in 0 .. (mask_batch_size - 1) |->
                    [col \in 0 .. (sequence_mask.sequence_duration - 1) |->
                        filled[row * sequence_mask.sequence_duration + col]]]
    /\ mask_pc' = "returned"
    /\ UNCHANGED <<model, seq_vars, sample_vars, construct_vars, store_vars, sequence_mask, mask_batch_size, num_masked_tokens, mask_indexes_batched, mask_raised, mask_call, mask_input, masking_probability, masked_output>>

\* BernoulliSequenceMask.sample_mask.
BernoulliSampleMask ==
    /\ mask_pc = "call"
    /\ sequence_mask.class = "BernoulliSequenceMask"
    /\ returned_mask' \in
        BernoulliMasks(mask_batch_size, sequence_mask.sequence_duration,
                       sequence_mask.probability)
    /\ mask_pc' = "returned"
    /\ UNCHANGED <<model, seq_vars, sample_vars, construct_vars, store_vars, sequence_mask, mask_batch_size, num_masked_tokens, mask_indexes_batched, mask_sequence, mask_raised, mask_call, mask_input, masking_probability, masked_output>>

\* UniformProbabilityBernoulliSequenceMask.sample_mask.
UniformProbabilitySampleMask ==
    /\ mask_pc = "call"
    /\ sequence_mask.class = "UniformProbabilityBernoulliSequenceMask"
    /\ \E p \in Uniform(sequence_mask.low, sequence_mask.high) :
        /\ masking_probability' = p
        /\ returned_mask' \in
            BernoulliMasks(mask_batch_size, sequence_mask.sequence_duration, p)
    /\ mask_pc' = "returned"
    /\ UNCHANGED <<model, seq_vars, sample_vars, construct_vars, store_vars, sequence_mask, mask_batch_size, num_masked_tokens, mask_indexes_batched, mask_sequence, mask_raised, mask_call, mask_input, masked_output>>

\* Mutant of SampleMaskNotImplemented: an all-false mask is returned.
SampleMaskOfNothing ==
    /\ mask_pc = "call"
    /\ sequence_mask.class
        \in {"SequenceMask", "ContiguousZonesSequenceMask"}
    /\ returned_mask' =
        [row \in 0 .. (mask_batch_size - 1) |->
            [col \in 0 .. (sequence_mask.sequence_duration - 1) |-> FALSE]]
    /\ mask_pc' = "returned"
    /\ UNCHANGED <<model, seq_vars, sample_vars, construct_vars, store_vars, sequence_mask, mask_batch_size, num_masked_tokens, mask_indexes_batched, mask_sequence, mask_raised, mask_call, mask_input, masking_probability, masked_output>>

\* SequenceMask.sample_mask and ContiguousZonesSequenceMask.sample_mask:
\* raise NotImplementedError.
SampleMaskNotImplemented ==
    /\ mask_pc = "call"
    /\ sequence_mask.class
        \in {"SequenceMask", "ContiguousZonesSequenceMask"}
    /\ mask_raised' = "NotImplementedError"
    /\ mask_pc' = "raised"
    /\ UNCHANGED <<model, seq_vars, sample_vars, construct_vars, store_vars, sequence_mask, mask_batch_size, num_masked_tokens, mask_indexes_batched, mask_sequence, returned_mask, mask_call, mask_input, masking_probability, masked_output>>

\* Mutant of ApplyMask: the mask token is put where the mask is false.
ApplyMaskInverted ==
    /\ mask_pc = "returned"
    /\ mask_call = "apply_mask"
    /\ masked_output' =
        masked_fill(mask_input,
                    [row \in DOMAIN returned_mask |->
                        [col \in DOMAIN returned_mask[row] |->
                            ~returned_mask[row][col]]],
                    sequence_mask.mask_token_index)
    /\ mask_pc' = "applied"
    /\ UNCHANGED <<model, seq_vars, sample_vars, construct_vars, store_vars, sequence_mask, mask_batch_size, num_masked_tokens, mask_indexes_batched, mask_sequence, returned_mask, mask_raised, mask_call, mask_input, masking_probability>>

\* apply_mask once sample_mask(batch_size=input.shape[0]) has returned:
\* input.masked_fill(mask, self.mask_token_index).
ApplyMask ==
    /\ mask_pc = "returned"
    /\ mask_call = "apply_mask"
    /\ masked_output' =
        masked_fill(mask_input, returned_mask, sequence_mask.mask_token_index)
    /\ mask_pc' = "applied"
    /\ UNCHANGED <<model, seq_vars, sample_vars, construct_vars, store_vars, sequence_mask, mask_batch_size, num_masked_tokens, mask_indexes_batched, mask_sequence, returned_mask, mask_raised, mask_call, mask_input, masking_probability>>

MaskNext ==
    \/ SampleAmount
    \/ SampleIndexes
    \/ FillMask
    \/ BernoulliSampleMask
    \/ UniformProbabilitySampleMask
    \/ SampleMaskNotImplemented
    \/ ApplyMask

MaskSpec == MaskInit /\ [][MaskNext]_vars

\* A call of sample_model that is given no constraint (constraint=None, the
\* default of the parameter).
UnconstrainedInit == Init /\ constraint = None

\* sample_model is sequential code without blocking calls: as long as a
\* statement remains to be run, one is run.
TerminationSpec == UnconstrainedInit /\ [][Next]_vars /\ WF_vars(Next)

\* ------------------------------------------------ instantiation parameters
\* Largest kernel_size a constructor call is given.
MaxKernelSize == 4

\* Largest positional_embeddings_dim a constructor call is given.
MaxPositionalEmbeddingsDim == 3

\* The Python values of the arguments that are not numbers, truth values or
\* strings: a tuple, a list, None.
TupleValue(items) == [container |-> "tuple", items |-> items]

ListValue(items) == [container |-> "list", items |-> items]

NoneValue == [container |-> "None", items |-> <<>>]

\* The parameters of __init__ that hold such values.
StructuredKeywords ==
    {"shape", "condition_shape",
     "class_conditioning_num_classes_per_modality",
     "class_conditioning_embedding_dim_per_modality"}

\* The parameters of __init__ without default value.
RequiredKeywords ==
    {"shape", "n_class", "channel", "kernel_size", "n_block", "n_res_block",
     "res_channel"}

\* The default values of the other parameters of __init__.
Defaults ==
    [attention |-> TRUE,
     dropout |-> "0.1",
     n_cond_res_block |-> 0,
     cond_res_channel |-> 0,
     cond_res_kernel |-> 3,
     n_out_res_block |-> 0,
     predict_frequencies_first |-> FALSE,
     predict_low_frequencies_first |-> TRUE,
     d_model |-> 512,
     embeddings_dim |-> 32,
     positional_embeddings_dim |-> 16,
     use_relative_transformer |-> FALSE,
     class_conditioning_num_classes_per_modality |-> NoneValue,
     class_conditioning_embedding_dim_per_modality |-> NoneValue,
     class_conditioning_prepend_to_dummy_input |-> FALSE,
     conditional_model |-> FALSE,
     condition_shape |-> NoneValue,
     conditional_model_num_encoder_layers |-> 12,
     conditional_model_num_decoder_layers |-> 6,
     conditional_model_nhead |-> 16,
     unconditional_model_num_encoder_layers |-> 6,
     unconditional_model_nhead |-> 8]

\* The names of the parameters of __init__.
ConstructorKeywords == RequiredKeywords \cup DOMAIN Defaults

\* What Python does with a call cls(**keywords) before the body runs: an
\* unknown keyword or a missing required argument is a TypeError.
CallException(keywords) ==
    IF /\ DOMAIN keywords \subseteq ConstructorKeywords
       /\ RequiredKeywords \subseteq DOMAIN keywords
    THEN "none" ELSE "TypeError"

\* The parameters of the body of __init__ for a call with these keywords.
BoundArguments(keywords) ==
    [k \in ConstructorKeywords |->
        IF k \in DOMAIN keywords THEN keywords[k] ELSE Defaults[k]]

\* Lines 74-79: the checks before the parameters are recorded (the second
\* one raises a tuple, which Python rejects with TypeError).
HeadException(a) ==
    IF a.conditional_model /\ a.condition_shape = NoneValue
    THEN "AssertionError"
    ELSE IF a.use_relative_transformer /\ ~a.predict_frequencies_first
    THEN "TypeError"
    ELSE "none"

\* Mutant of OddKernelSize: the kernel size is incremented in every case.
KernelSizeIncremented(kernel_size) == kernel_size + 1

\* Lines 85-88: an even kernel_size is incremented.
OddKernelSize(kernel_size) ==
    IF kernel_size % 2 = 0 THEN kernel_size + 1 ELSE kernel_size

\* Line 104: positional_embeddings_dim is rounded down to an even value.
EvenPositionalEmbeddingsDim(positional_embeddings_dim) ==
    2 * (positional_embeddings_dim \div 2)

\* The attributes that are set in either kind of model.
CommonAttributes ==
    {"shape", "conditional_model", "use_relative_transformer",
     "condition_shape", "n_class", "channel", "kernel_size", "n_block",
     "n_res_block", "res_channel", "attention", "dropout",
     "n_cond_res_block", "cond_res_channel", "cond_res_kernel",
     "n_out_res_block", "predict_frequencies_first",
     "predict_low_frequencies_first", "d_model", "embeddings_dim",
     "positional_embeddings_dim",
     "class_conditioning_num_classes_per_modality",
     "class_conditioning_embedding_dim_per_modality",
     "class_conditioning_prepend_to_dummy_input"}

\* Lines 112-118: the attributes that are set in a conditional model only.
ConditionalAttributes ==
    {"conditional_model_num_encoder_layers", "conditional_model_nhead",
     "conditional_model_num_decoder_layers"}

\* Lines 112-118: the attributes that are set in an unconditional model only.
UnconditionalAttributes ==
    {"unconditional_model_num_encoder_layers", "unconditional_model_nhead"}

\* Line 120: self.__dict__.copy() after the assignments of lines 72-118.
InstantiationParameters(a) ==
    [k \in CommonAttributes \cup
            (IF a.conditional_model THEN ConditionalAttributes
             ELSE UnconditionalAttributes) |->
        IF k = "kernel_size" THEN OddKernelSize(a.kernel_size)
        ELSE IF k = "positional_embeddings_dim"
        THEN EvenPositionalEmbeddingsDim(a.positional_embeddings_dim)
        ELSE a[k]]

\* The rest of the constructor reads the attributes only: a conditional
\* relative model divides by target_events_per_source_patch.
BodyException(p) ==
    IF /\ p.conditional_model
       /\ p.use_relative_transformer
       /\ TargetEventsPerSourcePatch([shape |-> p.shape.items, condition_shape |-> p.condition_shape.items]) = 0
    THEN "ZeroDivisionError"
    ELSE "none"

\* json.dump of a Python value: tuples and lists become arrays, None null.
JsonEncode(value) ==
    IF value.container = "None" THEN [container |-> "null", items |-> <<>>]
    ELSE [container |-> "array", items |-> value.items]

\* json.load of a JSON value: an array becomes a list, null None.
JsonDecode(value) ==
    IF value.container = "null" THEN NoneValue ELSE ListValue(value.items)

\* json.dump of a dictionary of parameters (numbers, truth values and
\* strings are read back as they were written).
json_dump(dictionary) ==
    [k \in DOMAIN dictionary |->
        IF k \in StructuredKeywords THEN JsonEncode(dictionary[k])
        ELSE dictionary[k]]

\* json.load of a stored dictionary of parameters.
json_load(object) ==
    [k \in DOMAIN object |->
        IF k \in StructuredKeywords THEN JsonDecode(object[k])
        ELSE object[k]]

\* The shapes of the models that are stored.
StoredShapes == {<<1, 2>>, <<2, 2>>}

\* The shapes of their conditions.
StoredConditionShapes == {<<1, 1>>, <<3, 3>>}

\* The keyword arguments of a constructor call: the required ones, and the
\* ones that differ between the calls; the others are left to their
\* defaults.
ConstructorArguments ==
    {[shape |-> shape,
      n_class |-> 512,
      channel |-> 64,
      kernel_size |-> kernel_size,
      n_block |-> 4,
      n_res_block |-> 4,
      res_channel |-> 64,
      predict_frequencies_first |-> pff,
      use_relative_transformer |-> rel,
      positional_embeddings_dim |-> positional_embeddings_dim,
      conditional_model |-> c[1],
      condition_shape |-> c[2],
      conditional_model_nhead |-> nhead[1],
      unconditional_model_nhead |-> nhead[2]] :
        shape \in {TupleValue(s) : s \in StoredShapes}
                    \cup {ListValue(s) : s \in StoredShapes},
        kernel_size \in 1 .. MaxKernelSize,
        positional_embeddings_dim \in 0 .. MaxPositionalEmbeddingsDim,
        pff \in BOOLEAN, rel \in BOOLEAN,
        c \in {<<FALSE, NoneValue>>, <<TRUE, NoneValue>>}
                \cup {<<TRUE, TupleValue(s)>> : s \in StoredConditionShapes}
                \cup {<<TRUE, ListValue(s)>> : s \in StoredConditionShapes},
        nhead \in {<<16, 8>>, <<4, 2>>}}

\* A call of the constructor, whose model is then stored and reloaded.
StoreInit ==
    /\ arguments \in ConstructorArguments
    /\ instantiation_parameters = <<>>
    /\ parameters_json = <<>>
    /\ reinstantiated_parameters = <<>>
    /\ store_pc = "call"
    /\ store_raised = "none"
    /\ model = NoModel
    /\ SeqIdle
    /\ SampleIdle
    /\ ConstructIdle
    /\ MaskingIdle

\* The constructor call that makes the first model.
Instantiate ==
    /\ store_pc = "call"
    /\ LET a == BoundArguments(arguments)
       IN  IF HeadException(a) # "none"
           THEN /\ store_pc' = "raised"
                /\ store_raised' = HeadException(a)
                /\ UNCHANGED instantiation_parameters
           ELSE /\ instantiation_parameters' = InstantiationParameters(a)
                /\ IF BodyException(InstantiationParameters(a)) # "none"
                   THEN /\ store_pc' = "raised"
                        /\ store_raised' = BodyException(InstantiationParameters(a))
                   ELSE /\ store_pc' = "constructed"
                        /\ UNCHANGED store_raised
    /\ UNCHANGED <<model, seq_vars, sample_vars, construct_vars, masking_vars, arguments, parameters_json, reinstantiated_parameters>>

\* store_instantiation_parameters: the recorded parameters are written as
\* JSON.
store_instantiation_parameters ==
    /\ store_pc = "constructed"
    /\ parameters_json' = json_dump(instantiation_parameters)
    /\ store_pc' = "stored"
    /\ UNCHANGED <<model, seq_vars, sample_vars, construct_vars, masking_vars, arguments, instantiation_parameters, reinstantiated_parameters, store_raised>>

\* from_parameters_and_weights: parameters = json.load(f), then
\* cls(**parameters); the weights are those of the first model.
from_parameters_and_weights ==
    /\ store_pc = "stored"
    /\ LET parameters_loaded == json_load(parameters_json)
           a == BoundArguments(parameters_loaded)
       IN  IF CallException(parameters_loaded) # "none"
           THEN /\ store_pc' = "raised"
                /\ store_raised' = CallException(parameters_loaded)
                /\ UNCHANGED reinstantiated_parameters
           ELSE IF HeadException(a) # "none"
           THEN /\ store_pc' = "raised"
                /\ store_raised' = HeadException(a)
                /\ UNCHANGED reinstantiated_parameters
           ELSE /\ reinstantiated_parameters' = InstantiationParameters(a)
                /\ IF BodyException(InstantiationParameters(a)) # "none"
                   THEN /\ store_pc' = "raised"
                        /\ store_raised' = BodyException(InstantiationParameters(a))
                   ELSE /\ store_pc' = "reinstantiated"
                        /\ UNCHANGED store_raised
    /\ UNCHANGED <<model, seq_vars, sample_vars, construct_vars, masking_vars, arguments, instantiation_parameters, parameters_json>>

StoreNext ==
    \/ Instantiate
    \/ store_instantiation_parameters
    \/ from_parameters_and_weights

StoreSpec == StoreInit /\ [][StoreNext]_vars

\* -------------------------------------------------------------- properties
\* Length of the sequence of the level being prepared.
SequenceLength == input.dims[1] * input.dims[2]

\* Whether prepare_data shifted the sequence it returned.
Shifted == ~(model.conditional_model /\ kind = "source")

\* C3: the causal mask is square over the predicted sequence, and for all
\* rows i and columns j its entry is 0 exactly when j <= i and -inf exactly
\* when j > i.
C3_CausalMaskCorrect ==
    phase \in {"masked", "mapped"} =>
        /\ mask.dims = <<SequenceLength, SequenceLength>>
        /\ \A a, b \in 0 .. (SequenceLength - 1) :
            /\ mask.at[<<a, b>>] = "0.0" <=> b <= a
            /\ mask.at[<<a, b>>] = "-inf" <=> b > a

\* C3 witness: a mask over a sequence of four positions has been built.
C3_Witness ==
    /\ phase = "masked"
    /\ SequenceLength = 4
    /\ mask.at[<<0, 3>>] = "-inf"
    /\ mask.at[<<3, 0>>] = "0.0"

\* C4: in a conditional relative model, the patch reordering of prepare_data
\* followed by the de-reordering of to_time_frequency_map gives back the
\* original grid, cell for cell.
C4_RoundTripReordering ==
    (/\ phase = "mapped"
     /\ model.conditional_model
     /\ model.use_relative_transformer)
        => \A p \in DOMAIN input.at :
            /\ time_frequency_map.at[p].cell = p
            /\ time_frequency_map.at[p].token = input.at[p]

\* C5: a shifted sequence starts with the start symbol, continues with the
\* unshifted sequence moved by one position, drops the last unshifted
\* element and keeps the length frequencies * duration.
C5_ShiftInvariant ==
    (phase # "input" /\ Shifted) =>
        /\ Len(prepared) = SequenceLength
        /\ Len(flattened) = SequenceLength
        /\ prepared[1] = StartSymbol(kind)
        /\ \A k \in 2 .. SequenceLength : prepared[k] = flattened[k - 1]
        /\ \A k \in 1 .. SequenceLength :
            prepared[k].cell # flattened[SequenceLength].cell

\* C5 witness: a sequence of at least three positions has been shifted.
C5_Witness ==
    /\ phase = "prepared"
    /\ Shifted
    /\ SequenceLength >= 3
    /\ prepared[1].start
    /\ prepared[3] = flattened[2]

\* The sequence index (0-based) the flattening of prepare_data gives cell
\* [f, t] in absolute mode, as the claim states it.
AbsoluteIndex(f, t) ==
    IF model.predict_frequencies_first THEN t * input.dims[1] + f
    ELSE f * input.dims[2] + t

\* C8: in absolute mode and for both raster orders, cell (f, t) of the map
\* to_time_frequency_map returns is the element at the index the flattening
\* gave cell (f, t), so de-flattening a flattened codemap gives it back.
C8_FlattenDeflattenConsistent ==
    (phase = "mapped" /\ ~model.use_relative_transformer) =>
        /\ time_frequency_map.dims = input.dims
        /\ \A p \in DOMAIN input.at :
            /\ time_frequency_map.at[p]
                    = flattened[AbsoluteIndex(p[1], p[2]) + 1]
            /\ time_frequency_map.at[p].cell = p
            /\ time_frequency_map.at[p].token = input.at[p]

\* C8 witness: a non-square codemap was flattened and de-flattened, in
\* either raster order.
C8_Witness ==
    /\ phase = "mapped"
    /\ ~model.use_relative_transformer
    /\ input.dims = <<2, 3>>
    /\ input.at[<<0, 1>>] # input.at[<<1, 0>>]

\* Number of target cells in the patch of one source cell.
PatchSize ==
    (model.target_frequencies \div model.source_frequencies)
        * (model.target_duration \div model.source_duration)

\* Index of the source cell above target cell [f, t] in the source
\* sequence's frequency-first raster order.
SourceIndex(cell) ==
    (cell[2] \div (model.target_duration \div model.source_duration))
            * model.source_frequencies
        + (cell[1] \div (model.target_frequencies \div model.source_frequencies))

\* C9: the patch reordering is a permutation of the target cells in which
\* the cells of the patch of the k-th source cell fill the positions
\* [k*P, (k+1)*P) of the sequence.
C9_PatchGrouping ==
    (/\ phase # "input"
     /\ kind = "target"
     /\ model.use_relative_transformer)
        => /\ Len(flattened) = SequenceLength
           /\ {flattened[n].cell : n \in 1 .. SequenceLength} = DOMAIN input.at
           /\ \A n \in 1 .. SequenceLength :
                (n - 1) \div PatchSize = SourceIndex(flattened[n].cell)

\* C9 witness: a target of six cells over a source of two or three cells was
\* reordered.
C9_Witness ==
    /\ phase = "prepared"
    /\ kind = "target"
    /\ model.use_relative_transformer
    /\ SequenceLength = 6
    /\ PatchSize \in {2, 3}

\* Whether position p lies in the rectangle the constraint covers.
InsideConstraint(p) ==
    /\ constraint # None
    /\ p[1] < constraint.dims[1]
    /\ p[2] < constraint.dims[2]

\* The cells of the codemap the constraint fixes.
ConstraintCells == {p \in DOMAIN codemap.at : InsideConstraint(p)}

\* The positions sampled so far.
Sampled == {visited[k] : k \in 1 .. Len(visited)}

\* Whether the constraint is higher or wider than the codemap.
Oversized ==
    /\ constraint # None
    /\ \/ constraint.dims[1] > model.shape[1]
       \/ constraint.dims[2] > model.shape[2]

\* C1: once the constraint is placed, every codemap cell inside the
\* constraint's rectangle holds the constraint's value in every later state
\* and in the codemap returned, and no sampling step has written to it.
C1_ConstraintPreserved ==
    (constraint # None /\ pc \in {"created", "outer", "inner", "returned"}) =>
        /\ \A p \in ConstraintCells :
            /\ codemap.at[p] = constraint.at[p]
            /\ p \notin Sampled
        /\ pc = "returned" =>
            \A p \in ConstraintCells : returned.at[p] = constraint.at[p]

\* C1 witness: a codemap was returned for a constraint that fits and holds
\* a non-zero token, after cells were sampled.
C1_Witness ==
    /\ pc = "returned"
    /\ constraint # None
    /\ ~Oversized
    /\ visited # <<>>
    /\ \E p \in ConstraintCells : returned.at[p] = 1

\* C2: when sample_model returns, the positions sampled are exactly the
\* cells outside the constraint's rectangle, each sampled once.
C2_SamplerCoverage ==
    pc = "returned" =>
        /\ Sampled = {p \in DOMAIN codemap.at : ~InsideConstraint(p)}
        /\ Cardinality(Sampled) = Len(visited)

\* C6: the logits read at a sampling step depend only on cells fixed
\* before the step, by the constraint or by an earlier step.
C6_SamplerCausality ==
    visited # <<>> =>
        read \subseteq
            (ConstraintCells
                \cup {visited[k] : k \in 1 .. (Len(visited) - 1)})

\* C7: with a constraint higher or wider than the codemap, sample_model
\* raises before the model is called and returns no codemap.
C7_ConstraintSizeCheck ==
    Oversized =>
        /\ pc \in {"call", "raised"}
        /\ pc = "raised" => raised = "ValueError"
        /\ forward_calls = 0
        /\ returned = None

\* C10 as stated: a model that is not frequency-first makes sample_model
\* raise NotImplementedError, the model never called and no cell sampled.
C10_UnsupportedOrderRaisesNotImplemented ==
    (~model.predict_frequencies_first /\ pc \notin {"call", "created"}) =>
        /\ pc = "raised"
        /\ raised = "NotImplementedError"
        /\ forward_calls = 0
        /\ visited = <<>>
        /\ returned = None

\* C10 amended: a model that is not frequency-first makes sample_model
\* raise, the model never called, no cell sampled and nothing returned; the
\* error is NotImplementedError unless the size check of the constraint
\* has raised ValueError before.
C10_UnsupportedOrderRaises ==
    (~model.predict_frequencies_first /\ pc \notin {"call", "created"}) =>
        /\ pc = "raised"
        /\ forward_calls = 0
        /\ visited = <<>>
        /\ returned = None
        /\ IF /\ constraint # None
              /\ ConstraintTooLarge(<<constraint.batch>> \o constraint.dims, model.shape)
           THEN raised = "ValueError"
           ELSE raised = "NotImplementedError"

\* C10 witness: NotImplementedError was raised for a model that is not
\* frequency-first.
C10_Witness ==
    /\ ~model.predict_frequencies_first
    /\ pc = "raised"
    /\ raised = "NotImplementedError"
    /\ codemap # None

\* C11: the source sequence of a conditional model is returned as the plain
\* flattened sequence (no start symbol, nothing dropped); the target sequence
\* of a conditional model and the sequence of an unconditional model are
\* returned shifted.
C11_WhichSequencesAreShifted ==
    phase \in {"prepared", "masked", "mapped"} =>
        IF model.conditional_model /\ kind = "source"
        THEN /\ prepared = flattened
             /\ Len(prepared) = SequenceLength
             /\ \A n \in 1 .. SequenceLength : ~prepared[n].start
             /\ {prepared[n].cell : n \in 1 .. SequenceLength}
                    = DOMAIN input.at
        ELSE /\ prepared[1].start
             /\ prepared # flattened
             /\ \A n \in 2 .. SequenceLength : prepared[n] = flattened[n - 1]

\* C11 witness: the conditioning sequence of a conditional model, of at least
\* two positions, was prepared and came back unshifted.
C11_Witness ==
    /\ phase = "prepared"
    /\ model.conditional_model
    /\ kind = "source"
    /\ SequenceLength >= 2
    /\ prepared = flattened
    /\ ~prepared[1].start

\* C12: the causal mask is square; its side is the target sequence length
\* (target_frequencies * target_duration) in a conditional model and the
\* source sequence length in an unconditional one; the conditional forward
\* pass gives the transformer no mask for the source sequence.
C12_CausalMaskLength ==
    phase \in {"masked", "mapped"} =>
        /\ mask.dims[1] = mask.dims[2]
        /\ DOMAIN mask.at
              = (0 .. (mask.dims[1] - 1)) \X (0 .. (mask.dims[1] - 1))
        /\ IF model.conditional_model
           THEN /\ mask.dims[1]
                    = model.target_frequencies * model.target_duration
                /\ src_mask = NoTensor
                /\ tgt_mask = mask
           ELSE /\ mask.dims[1]
                    = model.source_frequencies * model.source_duration
                /\ src_mask = mask

\* C12 witness: the forward pass of a conditional model whose source and
\* target sequences differ in length has read its masks.
C12_Witness ==
    /\ phase = "masked"
    /\ model.conditional_model
    /\ model.source_transformer_sequence_length = 2
    /\ mask.dims = <<6, 6>>
    /\ src_mask = NoTensor

\* Sum of the embedding widths of the first k modalities of the call.
RECURSIVE WidthsSum(_)
WidthsSum(k) ==
    IF k = 0 THEN 0
    ELSE WidthsSum(k - 1)
            + parameters.class_conditioning_embedding_dim_per_modality[k]

\* Number of modalities of the call.
NumModalities == Len(parameters.class_conditioning_embedding_dim_per_modality)

\* Whether the embeddings of all the modalities fit into the start symbol.
WidthsFit == WidthsSum(NumModalities) <= parameters.d_model

\* The range of the start symbol the k-th modality is to be written to: from
\* the head, one modality after the other from offset 0; from the tail, one
\* before the other down from d_model.
PlacementRange(k) ==
    IF parameters.class_conditioning_prepend_to_dummy_input
    THEN WidthsSum(k - 1) .. (WidthsSum(k) - 1)
    ELSE (parameters.d_model - WidthsSum(k))
            .. (parameters.d_model - WidthsSum(k - 1) - 1)

\* The range start_position : start_position + width prepare_data assigns
\* the k-th modality to.
AssignedRange(k) ==
    class_conditioning_start_positions_per_modality[k]
        .. (class_conditioning_start_positions_per_modality[k]
            + parameters.class_conditioning_embedding_dim_per_modality[k] - 1)

\* C13: the embedding of the k-th modality is written into the start-symbol
\* range [d1+...+d(k-1), d1+...+dk) in head mode and into
\* [d_model-(d1+...+dk), d_model-(d1+...+d(k-1))) in tail mode (for widths
\* that fit into the start symbol).
C13_ClassConditioningPlacement ==
    (init_pc = "constructed" /\ WidthsFit) =>
        /\ insert_raised = "none"
        /\ \A k \in 1 .. Len(written) : written[k] = PlacementRange(k)

\* C14: for widths summing to at most d_model, in head and in tail mode, the
\* ranges assigned to two different modalities are disjoint, every range
\* lies within [0, d_model), and what was written for a modality is not
\* overwritten by another.
C14_ClassConditioningNonInterference ==
    (init_pc = "constructed" /\ WidthsFit) =>
        /\ \A k \in 1 .. NumModalities :
            AssignedRange(k) \subseteq 0 .. (parameters.d_model - 1)
        /\ \A k, l \in 1 .. NumModalities :
            k # l => AssignedRange(k) \cap AssignedRange(l) = {}
        /\ \A k \in 1 .. Len(written) :
            \A p \in written[k] : start_symbol[p][1] = k

\* C15: no model is constructed whose modalities are assigned overlapping
\* ranges of the start symbol.
C15_OverlappingRangesRejected ==
    init_pc = "constructed" =>
        \A k, l \in 1 .. NumModalities :
            k # l => AssignedRange(k) \cap AssignedRange(l) = {}

\* C16: a call of the constructor that asks for relative positioning without
\* frequency-first ordering fails with an error before any component of the
\* model is built, and returns no model.
C16_RelativeNeedsFrequenciesFirst ==
    (/\ init_pc # "call"
     /\ parameters.use_relative_transformer
     /\ ~parameters.predict_frequencies_first)
        => /\ init_pc = "raised"
           /\ init_raised # "none"
           /\ components = {}
           /\ model = NoModel

\* C16 witness: the constructor of an unconditional model was called with
\* relative positioning in time-first order and has raised at the check.
C16_Witness ==
    /\ init_pc = "raised"
    /\ ~parameters.conditional_model
    /\ parameters.use_relative_transformer
    /\ ~parameters.predict_frequencies_first
    /\ init_raised = "TypeError"
    /\ components = {}

\* Whether the target shape is an exact integer multiple of the condition
\* shape along both axes.
ExactMultiple ==
    /\ parameters.shape[1] % parameters.condition_shape[1] = 0
    /\ parameters.shape[2] % parameters.condition_shape[2] = 0

\* C17: a call of the constructor for a conditional relative model whose
\* target shape is not an exact integer multiple of the condition shape
\* along both axes fails, and constructs no model.
C17_ResolutionMismatchRejected ==
    (/\ parameters.conditional_model
     /\ parameters.use_relative_transformer
     /\ parameters.condition_shape # NoShape
     /\ ~ExactMultiple)
        => /\ init_pc # "constructed"
           /\ model = NoModel

\* The frequency embedding of a level indexed by f, and its time embedding
\* indexed by t.
FrequencyEmbedding(level, f) == <<level, "frequency", f, 0>>

TimeEmbedding(level, t) == <<level, "time", 0, t>>

\* C18: in absolute and in relative mode, the positional code of source cell
\* (f, t) is the frequency embedding indexed by f followed by the time
\* embedding indexed by t, so two source cells of one frequency and
\* different times have codes with different time embeddings.
C18_SourcePositionalCode ==
    (phase \in {"prepared", "masked", "mapped"} /\ kind = "source") =>
        /\ \A n \in 1 .. SequenceLength :
            flattened[n].position
                = <<FrequencyEmbedding("source", flattened[n].cell[1]),
                    TimeEmbedding("source", flattened[n].cell[2])>>
        /\ \A n1, n2 \in 1 .. SequenceLength :
            (/\ flattened[n1].cell[1] = flattened[n2].cell[1]
             /\ flattened[n1].cell[2] # flattened[n2].cell[2])
                => flattened[n1].position[2] # flattened[n2].position[2]

\* The patch-local embedding indexed by (f mod (F/Fs), t mod (T/Ts)).
PatchEmbedding(f, t) ==
    <<"target", "patch",
      f % (model.target_frequencies \div model.source_frequencies),
      t % (model.target_duration \div model.source_duration)>>

\* C19: in relative mode the positional code of target cell (f, t) is the
\* target frequency embedding indexed by f followed by the patch-local
\* embedding indexed by (f mod (F/Fs), t mod (T/Ts)); in the reordered
\* target sequence the r-th element of every patch block has the same
\* patch-local embedding.
C19_TargetRelativePositionalCode ==
    (/\ phase \in {"prepared", "masked", "mapped"}
     /\ kind = "target"
     /\ model.use_relative_transformer)
        => /\ \A n \in 1 .. SequenceLength :
                flattened[n].position
                    = <<FrequencyEmbedding("target", flattened[n].cell[1]),
                        PatchEmbedding(flattened[n].cell[1],
                                       flattened[n].cell[2])>>
           /\ \A n1, n2 \in 1 .. SequenceLength :
                (n1 - 1) % PatchSize = (n2 - 1) % PatchSize
                    => flattened[n1].position[2] = flattened[n2].position[2]
           /\ \A n \in 2 .. SequenceLength :
                prepared[n].position = flattened[n - 1].position

\* C19 witness: a target of six cells in patches of two or three cells was
\* prepared in relative mode; the first elements of the first two patch
\* blocks share their patch-local embedding, the first two elements of the
\* first block do not.
C19_Witness ==
    /\ phase = "prepared"
    /\ kind = "target"
    /\ model.use_relative_transformer
    /\ SequenceLength = 6
    /\ PatchSize \in {2, 3}
    /\ flattened[1].position[2] = flattened[1 + PatchSize].position[2]
    /\ flattened[1].position[2] # flattened[2].position[2]

\* Number of true entries of one row of the returned mask.
TrueEntries(row) ==
    Cardinality({col \in DOMAIN returned_mask[row] : returned_mask[row][col]})

\* C20: a call of UniformMaskedAmountSequenceMask.sample_mask draws one k
\* with ceil(min_masking_ratio * L) <= k <= L and returns a mask of
\* batch_size rows of L entries, each row with exactly k true entries, also
\* for k = 0.
C20_MaskedAmountExact ==
    sequence_mask.class = "UniformMaskedAmountSequenceMask" =>
    /\ mask_pc \in {"amount", "indexes", "returned", "applied", "raised"} =>
        /\ num_masked_tokens * sequence_mask.min_masking_ratio[2]
            >= sequence_mask.sequence_duration
                * sequence_mask.min_masking_ratio[1]
        /\ num_masked_tokens <= sequence_mask.sequence_duration
        /\ num_masked_tokens >= 0
    /\ mask_raised = "none"
    /\ mask_pc \in {"returned", "applied"} =>
        /\ DOMAIN returned_mask = 0 .. (mask_batch_size - 1)
        /\ \A row \in DOMAIN returned_mask :
            /\ DOMAIN returned_mask[row]
                = 0 .. (sequence_mask.sequence_duration - 1)
            /\ TrueEntries(row) = num_masked_tokens

\* C21: BernoulliSequenceMask.sample_mask returns a mask of shape
\* [batch_size, sequence_duration], all false for probability 0 and all true
\* for probability 1.
C21_BernoulliBounds ==
    (/\ sequence_mask.class = "BernoulliSequenceMask"
     /\ mask_pc \in {"returned", "applied"})
        => /\ DOMAIN returned_mask = 0 .. (mask_batch_size - 1)
           /\ \A row \in DOMAIN returned_mask :
                /\ DOMAIN returned_mask[row]
                    = 0 .. (sequence_mask.sequence_duration - 1)
                /\ \A col \in DOMAIN returned_mask[row] :
                    /\ returned_mask[row][col] \in BOOLEAN
                    /\ sequence_mask.probability = <<0, 1>>
                        => ~returned_mask[row][col]
                    /\ sequence_mask.probability = <<1, 1>>
                        => returned_mask[row][col]

\* C21 witness: a Bernoulli mask of probability 1 was sampled for two rows
\* of three positions.
C21_Witness ==
    /\ sequence_mask.class = "BernoulliSequenceMask"
    /\ sequence_mask.probability = <<1, 1>>
    /\ sequence_mask.sequence_duration = 3
    /\ mask_batch_size = 2
    /\ mask_call = "sample_mask"
    /\ mask_pc = "returned"
    /\ returned_mask[1][2]

\* C22: when apply_mask returns, its result has the shape of the input,
\* holds mask_token_index at the positions the sampled mask selects and the
\* input's value at the others, and the input is as it was.
C22_ApplyMaskFrame ==
    [][(mask_pc # "applied" /\ mask_pc' = "applied") =>
        /\ mask_input' = mask_input
        /\ returned_mask' = returned_mask
        /\ DOMAIN masked_output' = DOMAIN mask_input
        /\ \A row \in DOMAIN mask_input :
            /\ DOMAIN masked_output'[row] = DOMAIN mask_input[row]
            /\ \A col \in DOMAIN mask_input[row] :
                masked_output'[row][col] =
                    IF returned_mask[row][col]
                    THEN sequence_mask.mask_token_index
                    ELSE mask_input[row][col]]_vars

\* C22 witness: apply_mask returned for an input of two rows with a mask
\* that selects one position and leaves another, the mask token being no
\* token of the input.
C22_Witness ==
    /\ mask_pc = "applied"
    /\ mask_batch_size = 2
    /\ sequence_mask.mask_token_index = NumClasses
    /\ sequence_mask.sequence_duration >= 2
    /\ returned_mask[1][0]
    /\ ~returned_mask[1][1]
    /\ masked_output[1][0] = NumClasses
    /\ masked_output[1][1] = mask_input[1][1]

\* C23: a call of sample_mask or apply_mask on ContiguousZonesSequenceMask
\* or on the base SequenceMask raises NotImplementedError and returns
\* neither a mask nor a tensor.
C23_ContiguousZonesNotImplemented ==
    (/\ sequence_mask.class
            \in {"SequenceMask", "ContiguousZonesSequenceMask"}
     /\ mask_pc # "call")
        => /\ mask_pc = "raised"
           /\ mask_raised = "NotImplementedError"
           /\ returned_mask = <<>>
           /\ masked_output = <<>>

\* C23 witness: apply_mask was called on a ContiguousZonesSequenceMask and
\* has raised.
C23_Witness ==
    /\ sequence_mask.class = "ContiguousZonesSequenceMask"
    /\ mask_call = "apply_mask"
    /\ mask_pc = "raised"
    /\ mask_raised = "NotImplementedError"

\* The position (from 1) of a cell in the order of the prepared sequence.
PositionOf(cell) ==
    CHOOSE n \in 1 .. SequenceLength : flattened[n].cell = cell

\* The cells whose tokens the transformer's output at position n is computed
\* from: those of the prepared sequence the causal mask lets position n
\* attend to.
SeenAt(n) ==
    {prepared[q].cell :
        q \in {r \in 1 .. SequenceLength :
                  /\ mask.at[<<n - 1, r - 1>>] = "0.0"
                  /\ ~prepared[r].start}}

\* C24: in the pipeline prepare_data, causally masked transformer,
\* to_time_frequency_map, the output placed at cell (f, t) is computed only
\* from tokens of cells that strictly precede (f, t) in the order of the
\* prepared sequence, so neither the token of (f, t) nor that of a later
\* cell reaches it.
C24_OutputMapCausality ==
    phase = "mapped" =>
        \A p \in DOMAIN input.at :
            \A c \in SeenAt(PositionOf(time_frequency_map.at[p].cell)) :
                PositionOf(c) < PositionOf(p)

\* The index j * H + i of position (i, j) in the order of the sampler.
VisitIndex(position) == position[2] * model.shape[1] + position[1]

\* C25: the positions sample_model visits have strictly increasing indexes
\* j * H + i over the run (columns in the outer loop, rows in the inner
\* one), so that no position is sampled twice.
C25_SamplerVisitOrder ==
    \A a, b \in 1 .. Len(visited) :
        a < b => VisitIndex(visited[a]) < VisitIndex(visited[b])

\* C25 witness: six positions in several columns of several rows were
\* sampled and the codemap was returned.
C25_Witness ==
    /\ pc = "returned"
    /\ Len(visited) = 6
    /\ model.shape[1] > 1
    /\ model.shape[2] > 1

\* C26: called without constraint on a frequency-first model, sample_model
\* returns, after exactly H * W sampling steps of one forward pass each, in
\* which every cell of the codemap was sampled exactly once.
C26_TerminationWithoutConstraint ==
    (pc = "call" /\ constraint = None /\ model.predict_frequencies_first) ~>
        /\ pc = "returned"
        /\ ~ENABLED Next
        /\ forward_calls = model.shape[1] * model.shape[2]
        /\ Len(visited) = forward_calls
        /\ \A cell \in DOMAIN returned.at :
            Cardinality({n \in 1 .. Len(visited) : visited[n] = cell}) = 1

\* C26 witness: a call without constraint returned a codemap of six cells in
\* three columns after six forward passes.
C26_Witness ==
    /\ pc = "returned"
    /\ constraint = None
    /\ model.shape = <<2, 3>>
    /\ forward_calls = 6

\* C27: a sampling step for position (i, j) leaves the shape of the codemap,
\* every cell of it other than (i, j), the condition and the constraint as
\* they were.
C27_SamplingStepFrame ==
    [][forward_calls' # forward_calls =>
        /\ codemap'.batch = codemap.batch
        /\ codemap'.dims = codemap.dims
        /\ DOMAIN codemap'.at = DOMAIN codemap.at
        /\ \A cell \in DOMAIN codemap.at \ {<<i, j>>} :
            codemap'.at[cell] = codemap.at[cell]
        /\ condition' = condition
        /\ constraint' = constraint]_vars

\* C27 witness: in a call with a condition and a constraint, the second
\* sampling step wrote a 1 into a codemap of at least four cells.
C27_Witness ==
    /\ forward_calls = 2
    /\ condition # None
    /\ constraint # None
    /\ Cardinality(DOMAIN codemap.at) >= 4
    /\ codemap.at[visited[2]] = 1

\* C28: with the values of the constraint in the vocabulary [0, V), every
\* cell of the codemap holds a value of [0, V) in every state of
\* sample_model and in the codemap it returns.
C28_VocabularyInvariant ==
    (constraint = None \/ \A p \in DOMAIN constraint.at : constraint.at[p] \in Tokens) =>
        /\ codemap # None => \A p \in DOMAIN codemap.at : codemap.at[p] \in Tokens
        /\ returned # None => \A p \in DOMAIN returned.at : returned.at[p] \in Tokens

\* C28 witness: a codemap that holds zeros of the padding, a value of the
\* constraint and a sampled value was returned.
C28_Witness ==
    /\ pc = "returned"
    /\ constraint # None
    /\ visited # <<>>
    /\ \E p \in DOMAIN constraint.at : constraint.at[p] = 1
    /\ returned.at[visited[1]] = 1
    /\ \E p \in DOMAIN returned.at : returned.at[p] = 0

\* C29: sample_model returns a codemap of shape [batch_size, H, W], without
\* constraint and with a constraint, of any batch size, that fits within
\* the codemap.
C29_ReturnedShape ==
    (pc = "returned" /\ (constraint = None \/ ~Oversized)) =>
        /\ returned.batch = batch_size
        /\ returned.dims = model.shape

\* C30 as stated: the parameters a model records are valid keyword arguments
\* of the constructor, re-instantiation from the stored parameters does not
\* fail, and the re-instantiated model records exactly the same parameters.
C30_RoundTripExact ==
    /\ store_pc \in {"constructed", "stored", "reinstantiated"} =>
        CallException(instantiation_parameters) = "none"
    /\ DOMAIN parameters_json # {} => store_pc # "raised"
    /\ store_pc = "reinstantiated" =>
        reinstantiated_parameters = instantiation_parameters

\* C30 amended: the parameters a model records are valid keyword arguments
\* of the constructor, re-instantiation from the stored parameters does not
\* fail, and the re-instantiated model records the same parameter names
\* with the same values, except that a shape recorded as a tuple is
\* recorded as the list of the same numbers: the two records are stored as
\* the same JSON.
C30_RoundTripUpToJson ==
    /\ store_pc \in {"constructed", "stored", "reinstantiated"} =>
        CallException(instantiation_parameters) = "none"
    /\ DOMAIN parameters_json # {} => store_pc # "raised"
    /\ store_pc = "reinstantiated" =>
        /\ DOMAIN reinstantiated_parameters = DOMAIN instantiation_parameters
        /\ \A k \in DOMAIN instantiation_parameters :
            \/ reinstantiated_parameters[k] = instantiation_parameters[k]
            \/ /\ k \in StructuredKeywords
               /\ instantiation_parameters[k].container = "tuple"
               /\ reinstantiated_parameters[k] = ListValue(instantiation_parameters[k].items)
        /\ json_dump(reinstantiated_parameters) = parameters_json

\* C30 witness: a conditional model made with an even kernel_size, an odd
\* positional_embeddings_dim and tuples for its shapes was stored and
\* re-instantiated.
C30_Witness ==
    /\ store_pc = "reinstantiated"
    /\ arguments.kernel_size = 2
    /\ arguments.positional_embeddings_dim = 3
    /\ arguments.conditional_model
    /\ arguments.shape.container = "tuple"
    /\ arguments.condition_shape.container = "tuple"
    /\ reinstantiated_parameters.kernel_size = 3
    /\ reinstantiated_parameters.positional_embeddings_dim = 2

====
